---- MODULE Spec2Model ----
(***************************************************************************)
(* Model of the KafkaTopic operator: the reconcile function of             *)
(* kafka_topic_controller.rs, the finalizer patches of KubeClient, the     *)
(* topic adapter of kafka_topic_helper.rs and the admin client that        *)
(* main.rs builds.  The cluster store (the KafkaTopic resources with their *)
(* metadata) and the Kafka backend (the topics of each broker) are the     *)
(* environment the code acts on.                                           *)
(*                                                                         *)
(* metadata.finalizers is an Option<Vec<String>>; the code only asks       *)
(* whether it is absent or empty and the patches replace it as a whole, so *)
(* it is modelled as a set of strings, the empty set standing for both     *)
(* None and Some([]).                                                      *)
(***************************************************************************)
EXTENDS Naturals, Sequences, FiniteSets, TLC

VARIABLES store, topics, pc, snapshot, action, calls, result, directive, faults

vars == <<store, topics, pc, snapshot, action, calls, result, directive, faults>>

(***************************************************************************)
(* Bounds and the fixed population of the model.                           *)
(***************************************************************************)
\* number of faults in one behaviour: port calls the environment makes fail
\* (timeout, conflict, authorization, backend unavailable) and passes dropped
\* between two port calls
MaxFaults == 2

Resources == {"A", "B"}

None == "<none>"

OwnFinalizer == "arnecdn.github.com/finalizer"

OtherFinalizer == "example.com/other"

\* the broker main.rs reads from APP__KAFKA__BROKER for the one admin client
EnvBroker == "env:9092"

OtherBroker == "other:9092"

Brokers == {EnvBroker, OtherBroker}

\* KafkaTopicSpec of each resource
spec(r) ==
  IF r = "A"
  THEN [bootstrap_server |-> EnvBroker, topic |-> "orders",
        partitions |-> 3, replication_factor |-> 1]
  ELSE [bootstrap_server |-> OtherBroker, topic |-> "payments",
        partitions |-> 1, replication_factor |-> 1]

(***************************************************************************)
(* kube::runtime::controller::Action values and reconcile results.         *)
(***************************************************************************)
NoAction == [kind |-> "None", secs |-> 0]

requeue(s) == [kind |-> "Requeue", secs |-> s]

await_change == [kind |-> "AwaitChange", secs |-> 0]

Pending == [kind |-> "Pending", action |-> NoAction, error |-> ""]

Ok(a) == [kind |-> "Ok", action |-> a, error |-> ""]

Err(e) == [kind |-> "Err", action |-> NoAction, error |-> e]

(***************************************************************************)
(* determine_action: Delete when the deletion timestamp is set, Create     *)
(* when the finalizer list is absent or empty, NoOp otherwise.             *)
(***************************************************************************)
determine_action_OwnMarker(kt) ==
  IF kt.deletion_timestamp
  THEN "Delete"
  ELSE IF OwnFinalizer \notin kt.finalizers THEN "Create" ELSE "NoOp"

determine_action_DeleteWhenGuarded(kt) ==
  IF kt.deletion_timestamp \/ kt.finalizers # {} THEN "Delete" ELSE "Create"

determine_action(kt) ==
  IF kt.deletion_timestamp
  THEN "Delete"
  ELSE IF kt.finalizers = {} THEN "Create" ELSE "NoOp"

(***************************************************************************)
(* The directives reconcile returns at the end of each arm, and on_error.  *)
(***************************************************************************)
CreateOk == Ok(requeue(10))

DeleteOk_Requeue == Ok(requeue(10))

DeleteOk == Ok(await_change)

NoOpOk_Short == Ok(requeue(5))

NoOpOk == Ok(requeue(10))

on_error_Long(kt, error) == requeue(10)

on_error(kt, error) == requeue(5)

(***************************************************************************)
(* The namespace check at the head of reconcile.                           *)
(***************************************************************************)
NamespaceMissing_Never(kt) == FALSE

NamespaceMissing(kt) == kt.namespace = None

(***************************************************************************)
(* The `?` after each port call: where the pass goes on the call's return. *)
(***************************************************************************)
AfterAddFinalizer_Ignore(ret) == "create_topic"

AfterAddFinalizer(ret) == IF ret = "Ok" THEN "create_topic" ELSE "on_error"

AfterDeleteTopic(ret) == IF ret = "Ok" THEN "delete_finalizer" ELSE "on_error"

(***************************************************************************)
(* KubeClient: both patches are JSON merge patches of metadata.finalizers. *)
(* A merge patch replaces an array as a whole and null removes the field.  *)
(***************************************************************************)
add_finalizer_patch(finalizers) == {OwnFinalizer}

delete_finalizer_patch(finalizers) == {}

(***************************************************************************)
(* KafkaAdminClient: what create_topic and delete_topic return for each    *)
(* outcome of the admin call.  Both log the outcome and return Ok(()).     *)
(***************************************************************************)
create_topic_ret_ExistsIsError(outcome) ==
  IF outcome = "AlreadyExists" THEN "Err" ELSE "Ok"

create_topic_ret(outcome) == "Ok"

delete_topic_ret(outcome) == "Ok"

\* the broker the admin client talks to
AdminBroker(r) == EnvBroker

TopicKey(r) == <<AdminBroker(r), spec(r).topic>>

(***************************************************************************)
(* The cluster store removes a resource once its deletion was requested    *)
(* and no finalizer is left.                                               *)
(***************************************************************************)
Settle(obj) ==
  IF obj.deletion_timestamp /\ obj.finalizers = {}
  THEN [obj EXCEPT !.alive = FALSE]
  ELSE obj

Call(op, backend, ret) == [op |-> op, backend |-> backend, ret |-> ret]

Init ==
  /\ store \in [Resources ->
        [alive : {TRUE}, namespace : {"default", None},
         deletion_timestamp : {FALSE}, finalizers : {{}, {OtherFinalizer}}]]
  /\ topics = {}
  /\ pc = [r \in Resources |-> "idle"]
  /\ snapshot = [r \in Resources |->
        [namespace |-> None, deletion_timestamp |-> FALSE, finalizers |-> {}]]
  /\ action = [r \in Resources |-> "None"]
  /\ calls = [r \in Resources |-> <<>>]
  /\ result = [r \in Resources |-> Pending]
  /\ directive = [r \in Resources |-> NoAction]
  /\ faults = 0

(***************************************************************************)
(* reconcile, up to its first port call: the controller hands it the       *)
(* current object; the namespace check and determine_action are local.     *)
(***************************************************************************)
Begin(r, kt) ==
  /\ LET act == determine_action(kt)
     IN /\ snapshot' = [snapshot EXCEPT ![r] = kt]
        /\ calls' = [calls EXCEPT ![r] = <<>>]
        /\ IF NamespaceMissing(kt)
           THEN /\ action' = [action EXCEPT ![r] = "None"]
                /\ result' = [result EXCEPT ![r] = Err("UserInputError")]
                /\ pc' = [pc EXCEPT ![r] = "on_error"]
                /\ UNCHANGED directive
           ELSE /\ action' = [action EXCEPT ![r] = act]
                /\ IF act = "Create"
                   THEN /\ pc' = [pc EXCEPT ![r] = "add_finalizer"]
                        /\ result' = [result EXCEPT ![r] = Pending]
                        /\ UNCHANGED directive
                   ELSE IF act = "Delete"
                   THEN /\ pc' = [pc EXCEPT ![r] = "delete_topic"]
                        /\ result' = [result EXCEPT ![r] = Pending]
                        /\ UNCHANGED directive
                   ELSE /\ pc' = [pc EXCEPT ![r] = "idle"]
                        /\ result' = [result EXCEPT ![r] = NoOpOk]
                        /\ directive' = [directive EXCEPT ![r] = NoOpOk.action]
  /\ UNCHANGED <<store, topics, faults>>

Start(r) ==
  /\ pc[r] = "idle"
  /\ store[r].alive
  /\ Begin(r, [namespace |-> store[r].namespace,
               deletion_timestamp |-> store[r].deletion_timestamp,
               finalizers |-> store[r].finalizers])

(***************************************************************************)
(* reconcile run again on the object of the previous pass (the caller's    *)
(* copy of the resource has not caught up with the store yet, be it with a *)
(* patch or with the removal of the resource): reconcile takes whatever    *)
(* object it is handed.                                                    *)
(***************************************************************************)
Restart(r) ==
  /\ pc[r] = "idle"
  /\ result[r].kind # "Pending"
  /\ Begin(r, snapshot[r])

(***************************************************************************)
(* A finalizer patch: applied by the store, rejected by a fault, or not    *)
(* found because the resource is gone.                                     *)
(***************************************************************************)
Patch(r, op, patched, nextOk, nextErr) ==
  \E outcome \in {"Patched", "Rejected", "NotFound"} :
    /\ outcome = "Patched" => store[r].alive
    /\ outcome = "NotFound" => ~store[r].alive
    /\ outcome = "Rejected" => faults < MaxFaults
    /\ LET ret == IF outcome = "Patched" THEN "Ok" ELSE "Err"
           next == IF ret = "Ok" THEN nextOk ELSE nextErr
       IN /\ store' = IF outcome = "Patched"
                      THEN [store EXCEPT ![r] = Settle([@ EXCEPT !.finalizers = patched])]
                      ELSE store
          /\ faults' = IF outcome = "Rejected" THEN faults + 1 ELSE faults
          /\ calls' = [calls EXCEPT ![r] = Append(@, Call(op, outcome, ret))]
          /\ pc' = [pc EXCEPT ![r] = next]
          /\ result' = [result EXCEPT ![r] =
                          IF next = "on_error" THEN Err("KubeError")
                          ELSE IF next = "idle" THEN DeleteOk
                          ELSE @]
          /\ directive' = [directive EXCEPT ![r] =
                          IF next = "idle" THEN DeleteOk.action ELSE @]

AfterDeleteFinalizer(ret) == IF ret = "Ok" THEN "idle" ELSE "on_error"

AddFinalizer(r) ==
  /\ pc[r] = "add_finalizer"
  /\ Patch(r, "add_finalizer", add_finalizer_patch(store[r].finalizers),
           AfterAddFinalizer("Ok"), AfterAddFinalizer("Err"))
  /\ UNCHANGED <<topics, snapshot, action>>

DeleteFinalizer(r) ==
  /\ pc[r] = "delete_finalizer"
  /\ Patch(r, "delete_finalizer", delete_finalizer_patch(store[r].finalizers),
           AfterDeleteFinalizer("Ok"), AfterDeleteFinalizer("Err"))
  /\ UNCHANGED <<topics, snapshot, action>>

(***************************************************************************)
(* create_topic: the admin call fails as a whole (AdminFail), reports a    *)
(* per-topic error (TopicErr, or AlreadyExists when the topic is there),   *)
(* or creates the topic.                                                   *)
(***************************************************************************)
CreateTopic(r) ==
  /\ pc[r] = "create_topic"
  /\ \E outcome \in {"Created", "AlreadyExists", "TopicErr", "AdminFail"} :
       /\ outcome = "Created" => TopicKey(r) \notin topics
       /\ outcome = "AlreadyExists" => TopicKey(r) \in topics
       /\ outcome \in {"TopicErr", "AdminFail"} => faults < MaxFaults
       /\ LET ret == create_topic_ret(outcome)
          IN /\ topics' = IF outcome = "Created" THEN topics \cup {TopicKey(r)} ELSE topics
             /\ faults' = IF outcome \in {"TopicErr", "AdminFail"} THEN faults + 1 ELSE faults
             /\ calls' = [calls EXCEPT ![r] = Append(@, Call("create_topic", outcome, ret))]
             /\ IF ret = "Ok"
                THEN /\ pc' = [pc EXCEPT ![r] = "idle"]
                     /\ result' = [result EXCEPT ![r] = CreateOk]
                     /\ directive' = [directive EXCEPT ![r] = CreateOk.action]
                ELSE /\ pc' = [pc EXCEPT ![r] = "on_error"]
                     /\ result' = [result EXCEPT ![r] = Err("KubeError")]
                     /\ UNCHANGED directive
  /\ UNCHANGED <<store, snapshot, action>>

(***************************************************************************)
(* delete_topic: as create_topic, with NotFound when the topic is absent.  *)
(***************************************************************************)
DeleteTopic(r) ==
  /\ pc[r] = "delete_topic"
  /\ \E outcome \in {"Deleted", "NotFound", "TopicErr", "AdminFail"} :
       /\ outcome = "Deleted" => TopicKey(r) \in topics
       /\ outcome = "NotFound" => TopicKey(r) \notin topics
       /\ outcome \in {"TopicErr", "AdminFail"} => faults < MaxFaults
       /\ LET ret == delete_topic_ret(outcome)
          IN /\ topics' = IF outcome = "Deleted" THEN topics \ {TopicKey(r)} ELSE topics
             /\ faults' = IF outcome \in {"TopicErr", "AdminFail"} THEN faults + 1 ELSE faults
             /\ calls' = [calls EXCEPT ![r] = Append(@, Call("delete_topic", outcome, ret))]
             /\ pc' = [pc EXCEPT ![r] = AfterDeleteTopic(ret)]
             /\ result' = [result EXCEPT ![r] =
                             IF AfterDeleteTopic(ret) = "on_error" THEN Err("KubeError") ELSE @]
  /\ UNCHANGED <<store, snapshot, action, directive>>

(***************************************************************************)
(* on_error: called by the controller with the error of a failed pass.     *)
(***************************************************************************)
OnError(r) ==
  /\ pc[r] = "on_error"
  /\ directive' = [directive EXCEPT ![r] = on_error(snapshot[r], result[r].error)]
  /\ pc' = [pc EXCEPT ![r] = "idle"]
  /\ UNCHANGED <<store, topics, snapshot, action, calls, result, faults>>

(***************************************************************************)
(* The pass is dropped between two port calls (controller shut down and   *)
(* restarted).  It counts as a fault, so that passes are not dropped for   *)
(* ever.                                                                   *)
(***************************************************************************)
Cancel(r) ==
  /\ pc[r] \in {"create_topic", "delete_finalizer"}
  /\ faults < MaxFaults
  /\ faults' = faults + 1
  /\ pc' = [pc EXCEPT ![r] = "idle"]
  /\ result' = [result EXCEPT ![r] = Err("Cancelled")]
  /\ UNCHANGED <<store, topics, snapshot, action, calls, directive>>

(***************************************************************************)
(* The environment: a user requests the deletion of a resource; another    *)
(* controller adds or removes its own finalizer.                           *)
(***************************************************************************)
RequestDeletion(r) ==
  /\ store[r].alive
  /\ ~store[r].deletion_timestamp
  /\ store' = [store EXCEPT ![r] = Settle([@ EXCEPT !.deletion_timestamp = TRUE])]
  /\ UNCHANGED <<topics, pc, snapshot, action, calls, result, directive, faults>>

OtherFinalizerAdd(r) ==
  /\ store[r].alive
  /\ ~store[r].deletion_timestamp
  /\ OtherFinalizer \notin store[r].finalizers
  /\ store' = [store EXCEPT ![r].finalizers = @ \cup {OtherFinalizer}]
  /\ UNCHANGED <<topics, pc, snapshot, action, calls, result, directive, faults>>

OtherFinalizerRemove(r) ==
  /\ store[r].alive
  /\ OtherFinalizer \in store[r].finalizers
  /\ store' = [store EXCEPT ![r] = Settle([@ EXCEPT !.finalizers = @ \ {OtherFinalizer}])]
  /\ UNCHANGED <<topics, pc, snapshot, action, calls, result, directive, faults>>

Next ==
  \E r \in Resources :
    \/ Start(r)
    \/ AddFinalizer(r)
    \/ CreateTopic(r)
    \/ DeleteTopic(r)
    \/ DeleteFinalizer(r)
    \/ OnError(r)
    \/ Cancel(r)
    \/ RequestDeletion(r)
    \/ OtherFinalizerAdd(r)
    \/ OtherFinalizerRemove(r)

Spec == Init /\ [][Next]_vars

\* the same system when reconcile may also be re-run on the same object
NextRerun ==
  \/ Next
  \/ \E r \in Resources : Restart(r)

RerunSpec == Init /\ [][NextRerun]_vars

(***************************************************************************)
(* Fair re-invocation: the controller requeues every resource after each   *)
(* pass (10 s after success, 5 s after failure) and drives a started pass  *)
(* to its end; the fault budget makes the ports eventually accept.         *)
(***************************************************************************)
FairSpec ==
  /\ Spec
  /\ \A r \in Resources :
       /\ WF_vars(Start(r))
       /\ WF_vars(AddFinalizer(r))
       /\ WF_vars(CreateTopic(r))
       /\ WF_vars(DeleteTopic(r))
       /\ WF_vars(DeleteFinalizer(r))
       /\ WF_vars(OnError(r))

(***************************************************************************)
(* Vocabulary of the properties.                                           *)
(***************************************************************************)
GuardPresent(obj) == OwnFinalizer \in obj.finalizers

TopicExists(r) == <<AdminBroker(r), spec(r).topic>> \in topics

\* a pass of r has been started (the initial snapshot is a placeholder)
PassSeen(r) == pc[r] # "idle" \/ result[r].kind # "Pending"

PassEnded(r) == pc[r] = "idle" /\ result[r].kind # "Pending"

HasCall(r, op) == \E i \in 1..Len(calls[r]) : calls[r][i].op = op

BackendFailure == {"TopicErr", "AdminFail"}

\* the table of the reconciliation engine over (deletionRequested, guardPresent)
Table(deletionRequested, guardPresent) ==
  IF deletionRequested THEN "Delete"
  ELSE IF guardPresent THEN "NoOp" ELSE "Create"

(***************************************************************************)
(* C1 (no orphan): in every reachable state the topic of a resource exists *)
(* only while the resource is in the store with the controller's finalizer *)
(* on it.                                                                  *)
(***************************************************************************)
C1_NoOrphan ==
  \A r \in Resources :
    TopicExists(r) => store[r].alive /\ GuardPresent(store[r])

(***************************************************************************)
(* C2 (classification): the action chosen for a pass is the table's entry  *)
(* for (deletionRequested, guardPresent) of the object it was given.       *)
(***************************************************************************)
C2_ActionMatchesTable ==
  \A r \in Resources :
    (PassSeen(r) /\ action[r] # "None") =>
      action[r] = Table(snapshot[r].deletion_timestamp, GuardPresent(snapshot[r]))

(***************************************************************************)
(* C3 (guard before create): in a pass, create_topic is called only as the *)
(* second call, after an add_finalizer that returned Ok; when add_finalizer*)
(* returns an error it is the only call of the pass and the pass fails.    *)
(***************************************************************************)
C3_GuardBeforeCreate ==
  \A r \in Resources :
    /\ \A i \in 1..Len(calls[r]) :
         calls[r][i].op = "create_topic" =>
           /\ i = 2
           /\ calls[r][1].op = "add_finalizer"
           /\ calls[r][1].ret = "Ok"
    /\ pc[r] = "create_topic" =>
         /\ Len(calls[r]) = 1
         /\ calls[r][1] = Call("add_finalizer", "Patched", "Ok")
    /\ (calls[r] # <<>> /\ calls[r][1].op = "add_finalizer" /\ calls[r][1].ret = "Err") =>
         /\ Len(calls[r]) = 1
         /\ result[r] = Err("KubeError")
         /\ pc[r] \in {"on_error", "idle"}

C3_Witness ==
  \E r1, r2 \in Resources :
    /\ action[r1] = "Create" /\ PassEnded(r1)
    /\ Len(calls[r1]) = 2 /\ calls[r1][2].op = "create_topic"
    /\ action[r2] = "Create" /\ PassEnded(r2)
    /\ Len(calls[r2]) = 1 /\ calls[r2][1].ret = "Err"
    /\ ~TopicExists(r2)

(***************************************************************************)
(* C4 (delete before unguard): in a pass, delete_finalizer is called only  *)
(* after the backend deleted the topic (or reported it not found); when    *)
(* the backend fails the delete, delete_finalizer is not called, the guard *)
(* stays and the pass ends in an error that on_error requeues after 5 s.   *)
(***************************************************************************)
C4_DeleteBeforeUnguard ==
  \A r \in Resources :
    /\ (pc[r] = "delete_finalizer" \/ HasCall(r, "delete_finalizer")) =>
         /\ calls[r][1].op = "delete_topic"
         /\ calls[r][1].backend \in {"Deleted", "NotFound"}
    /\ (calls[r] # <<>> /\ calls[r][1].op = "delete_topic"
          /\ calls[r][1].backend \in BackendFailure) =>
         /\ Len(calls[r]) = 1
         /\ result[r].kind = "Err"
         /\ pc[r] = "idle" => directive[r] = requeue(5)

(***************************************************************************)
(* C5 (validation short-circuit): a pass on an object without namespace    *)
(* ends with UserInputError and has made no port call; none of its steps   *)
(* changes the store or the topics.                                        *)
(***************************************************************************)
C5_NoNamespaceState ==
  \A r \in Resources :
    (PassSeen(r) /\ snapshot[r].namespace = None) =>
      /\ result[r] = Err("UserInputError")
      /\ calls[r] = <<>>
      /\ pc[r] \in {"on_error", "idle"}

C5_NoNamespaceStep ==
  \A r \in Resources :
    (snapshot'[r].namespace = None
       /\ (pc'[r] # pc[r] \/ result'[r] # result[r] \/ calls'[r] # calls[r])) =>
      UNCHANGED <<store, topics>>

C5_ValidationShortCircuit == [] C5_NoNamespaceState /\ [][C5_NoNamespaceStep]_vars

C5_Witness ==
  \E r \in Resources :
    /\ PassEnded(r)
    /\ snapshot[r].namespace = None
    /\ result[r] = Err("UserInputError")
    /\ directive[r] = requeue(5)
    /\ store[r].deletion_timestamp

(***************************************************************************)
(* C6 (steady state): a pass on an object that is not deletion-requested   *)
(* and carries the controller's finalizer is a NoOp: no port call, store   *)
(* and topics untouched, Requeue(10 s).                                    *)
(***************************************************************************)
C6_SteadyState(r) == ~snapshot[r].deletion_timestamp /\ GuardPresent(snapshot[r])

C6_NoOpState ==
  \A r \in Resources :
    (PassSeen(r) /\ C6_SteadyState(r)) =>
      /\ action[r] = "NoOp"
      /\ calls[r] = <<>>
      /\ pc[r] = "idle"
      /\ result[r] = Ok(requeue(10))
      /\ directive[r] = requeue(10)

C6_NoOpStep ==
  \A r \in Resources :
    (pc[r] = "idle" /\ C6_SteadyState(r)'
       /\ (result'[r] # result[r] \/ calls'[r] # calls[r] \/ snapshot'[r] # snapshot[r]
             \/ pc'[r] # pc[r])) =>
      UNCHANGED <<store, topics>>

C6_NoOpPass == [] C6_NoOpState /\ [][C6_NoOpStep]_vars

C6_Witness ==
  \E r \in Resources :
    /\ PassEnded(r)
    /\ C6_SteadyState(r)
    /\ action[r] = "NoOp"
    /\ TopicExists(r)
    /\ result[r] = Ok(requeue(10))

(***************************************************************************)
(* C7 (success directives): a pass that returned Ok returned Requeue(10 s) *)
(* when its action was Create or NoOp and AwaitChange when it was Delete   *)
(* (delete_topic then delete_finalizer both returned Ok).                  *)
(***************************************************************************)
C7_SuccessDirective ==
  \A r \in Resources :
    result[r].kind = "Ok" =>
      /\ pc[r] = "idle"
      /\ directive[r] = result[r].action
      /\ \/ action[r] \in {"Create", "NoOp"} /\ result[r].action = requeue(10)
         \/ /\ action[r] = "Delete"
            /\ result[r].action = await_change
            /\ Len(calls[r]) = 2
            /\ calls[r][1].op = "delete_topic" /\ calls[r][1].ret = "Ok"
            /\ calls[r][2].op = "delete_finalizer" /\ calls[r][2].ret = "Ok"

C7_Witness ==
  \E r1, r2 \in Resources :
    /\ result[r1].kind = "Ok" /\ action[r1] = "Delete" /\ ~store[r1].alive
    /\ result[r2].kind = "Ok" /\ action[r2] = "Create" /\ TopicExists(r2)

(***************************************************************************)
(* C8 (failure directive): every pass that ended in an error was mapped by *)
(* on_error to Requeue(5 s); the on_error step makes no port call and      *)
(* changes neither the store nor the topics.                               *)
(***************************************************************************)
C8_FailedState ==
  \A r \in Resources :
    (PassEnded(r) /\ result[r].kind = "Err" /\ result[r].error # "Cancelled") =>
      directive[r] = requeue(5)

C8_OnErrorStep ==
  \A r \in Resources :
    (pc[r] = "on_error" /\ pc'[r] # "on_error") =>
      /\ directive'[r] = requeue(5)
      /\ UNCHANGED <<store, topics, calls>>

C8_OnError == [] C8_FailedState /\ [][C8_OnErrorStep]_vars

C8_Witness ==
  \E r1, r2 \in Resources :
    /\ PassEnded(r1) /\ result[r1] = Err("UserInputError") /\ directive[r1] = requeue(5)
    /\ PassEnded(r2) /\ result[r2] = Err("KubeError") /\ directive[r2] = requeue(5)
    /\ store[r2].deletion_timestamp

(***************************************************************************)
(* C9 (provisioning failure): when the backend fails a create or a delete  *)
(* (other than already-exists / not-found), the adapter call returns an    *)
(* error and the pass does not end in a success directive.                 *)
(***************************************************************************)
C9_ProvisioningFailureSurfaces ==
  \A r \in Resources :
    \A i \in 1..Len(calls[r]) :
      (calls[r][i].op \in {"create_topic", "delete_topic"}
         /\ calls[r][i].backend \in BackendFailure) =>
        /\ calls[r][i].ret = "Err"
        /\ result[r].kind # "Ok"

(***************************************************************************)
(* C10 (create retried): once the backend has failed the create of a       *)
(* Create pass whose add_finalizer succeeded, then under fair              *)
(* re-invocation the topic eventually exists, unless the deletion of the   *)
(* resource is requested.                                                  *)
(***************************************************************************)
C10_CreateFailed(r) ==
  /\ Len(calls[r]) = 2
  /\ calls[r][1] = Call("add_finalizer", "Patched", "Ok")
  /\ calls[r][2].op = "create_topic"
  /\ calls[r][2].backend \in BackendFailure

C10_CreateRetried ==
  \A r \in Resources :
    C10_CreateFailed(r) ~> (TopicExists(r) \/ store[r].deletion_timestamp)

(***************************************************************************)
(* C11 (cancellation): once a pass was dropped between its two port calls, *)
(* the following passes eventually reach the state the whole pass would    *)
(* have reached: guard attached and topic existing for a Create pass       *)
(* (unless the deletion of the resource is requested), topic absent and    *)
(* guard released for a Delete pass.                                       *)
(***************************************************************************)
C11_Cancelled(r, act) ==
  pc[r] = "idle" /\ result[r] = Err("Cancelled") /\ action[r] = act

C11_CancelRecovers ==
  \A r \in Resources :
    /\ C11_Cancelled(r, "Create") ~>
         ((GuardPresent(store[r]) /\ TopicExists(r)) \/ store[r].deletion_timestamp)
    /\ C11_Cancelled(r, "Delete") ~>
         (~TopicExists(r) /\ ~GuardPresent(store[r]))

(***************************************************************************)
(* C12 (idempotent re-entry): a Create pass whose create_topic is answered *)
(* "already exists" (the pass was run a second time) ends with the success *)
(* directive Requeue(10 s), and leaves the topic existing and the guard    *)
(* attached as they were after the first pass; its create_topic step       *)
(* changes neither the topics nor the store.                               *)
(***************************************************************************)
C12_SecondCreate(r) ==
  /\ action[r] = "Create"
  /\ Len(calls[r]) = 2
  /\ calls[r][2].op = "create_topic"
  /\ calls[r][2].backend = "AlreadyExists"

C12_SecondCreateState ==
  \A r \in Resources :
    C12_SecondCreate(r) =>
      /\ pc[r] = "idle"
      /\ result[r] = Ok(requeue(10))
      /\ directive[r] = requeue(10)
      /\ TopicExists(r)
      /\ GuardPresent(store[r])

C12_SecondCreateStep ==
  \A r \in Resources :
    (pc[r] = "create_topic" /\ C12_SecondCreate(r)') =>
      /\ TopicExists(r)
      /\ GuardPresent(store[r])
      /\ UNCHANGED <<store, topics>>

C12_IdempotentCreate == [] C12_SecondCreateState /\ [][C12_SecondCreateStep]_vars

C12_Witness ==
  \E r \in Resources :
    /\ C12_SecondCreate(r)
    /\ PassEnded(r)
    /\ result[r] = Ok(requeue(10))
    /\ store[r].finalizers = {OwnFinalizer}

(***************************************************************************)
(* C13 (only the own marker): a successful add_finalizer or                *)
(* delete_finalizer sets or clears the controller's marker and keeps every *)
(* other finalizer that was on the resource before the call.               *)
(***************************************************************************)
C13_Patched(r, op) == calls'[r] = Append(calls[r], Call(op, "Patched", "Ok"))

C13_OnlyOwnMarkerStep ==
  \A r \in Resources :
    /\ C13_Patched(r, "add_finalizer") =>
         /\ OwnFinalizer \in store'[r].finalizers
         /\ store[r].finalizers \ {OwnFinalizer} \subseteq store'[r].finalizers
    /\ C13_Patched(r, "delete_finalizer") =>
         /\ OwnFinalizer \notin store'[r].finalizers
         /\ store[r].finalizers \ {OwnFinalizer} \subseteq store'[r].finalizers

C13_OnlyOwnMarker == [][C13_OnlyOwnMarkerStep]_vars

(***************************************************************************)
(* C14 (finalization): a resource whose deletion was requested while the   *)
(* guard is present is removed from the store only by the delete_finalizer *)
(* of a Delete pass; under fair re-invocation the topic is eventually      *)
(* deleted, the guard released and the resource removed; no pass starts on *)
(* a removed resource.                                                     *)
(***************************************************************************)
C14_RemovalStep ==
  \A r \in Resources :
    /\ (store[r].alive /\ GuardPresent(store[r]) /\ ~store'[r].alive) =>
         /\ action[r] = "Delete"
         /\ C13_Patched(r, "delete_finalizer")
    /\ (~store[r].alive /\ pc[r] = "idle") =>
         (pc'[r] = "idle" /\ calls'[r] = calls[r] /\ result'[r] = result[r])

C14_Finalized(r) ==
  ~store[r].alive /\ ~GuardPresent(store[r]) /\ ~TopicExists(r)

C14_DeletionCompletes ==
  /\ [][C14_RemovalStep]_vars
  /\ \A r \in Resources :
       (store[r].alive /\ store[r].deletion_timestamp /\ GuardPresent(store[r]))
         ~> C14_Finalized(r)

(***************************************************************************)
(* C15 (guard set once, cleared once): the guard is attached only by the   *)
(* add_finalizer of a Create pass and cleared only by the delete_finalizer *)
(* of a Delete pass on a deletion-requested resource, which removes the    *)
(* resource; a removed resource stays removed and never carries the guard  *)
(* again; deletionRequested never reverts to false.  Hence each change of  *)
(* guardPresent happens at most once in the life of a resource.            *)
(***************************************************************************)
C15_GuardStep ==
  \A r \in Resources :
    /\ (~GuardPresent(store[r]) /\ GuardPresent(store'[r])) =>
         /\ store[r].alive
         /\ action[r] = "Create"
         /\ C13_Patched(r, "add_finalizer")
    /\ (GuardPresent(store[r]) /\ ~GuardPresent(store'[r])) =>
         /\ action[r] = "Delete"
         /\ C13_Patched(r, "delete_finalizer")
         /\ store[r].deletion_timestamp
         /\ ~store'[r].alive
    /\ ~store[r].alive => (~store'[r].alive /\ ~GuardPresent(store'[r]))
    /\ store[r].deletion_timestamp => store'[r].deletion_timestamp

C15_GuardOnce == [][C15_GuardStep]_vars

C15_Witness ==
  \E r \in Resources :
    /\ ~store[r].alive
    /\ ~GuardPresent(store[r])
    /\ action[r] = "Delete"
    /\ Len(calls[r]) = 2
    /\ calls[r][1].backend = "Deleted"
    /\ calls[r][2] = Call("delete_finalizer", "Patched", "Ok")

(***************************************************************************)
(* C16 (two resources): a step of a pass for one resource leaves the store *)
(* entry and the topic of every other resource unchanged; under every      *)
(* interleaving each resource's topic exists only while its guard is       *)
(* present; and a started pass of any resource completes whatever the      *)
(* other resource's passes do.                                             *)
(***************************************************************************)
C16_PassStep(r) == pc'[r] # pc[r] \/ calls'[r] # calls[r] \/ result'[r] # result[r]

C16_FrameStep ==
  \A r, q \in Resources :
    (r # q /\ C16_PassStep(r) /\ ~C16_PassStep(q)) =>
      /\ store'[q] = store[q]
      /\ TopicExists(q)' = TopicExists(q)

C16_Guarded(r) == TopicExists(r) => (store[r].alive /\ GuardPresent(store[r]))

C16_Frame == [][C16_FrameStep]_vars

C16_Progress == \A r \in Resources : (pc[r] # "idle") ~> (pc[r] = "idle")

C16_IsolatedPasses ==
  /\ C16_Frame
  /\ [](\A r \in Resources : C16_Guarded(r))
  /\ C16_Progress

(***************************************************************************)
(* C17 (idempotent guard port): a successful add_finalizer on a resource   *)
(* that already carries the guard, and a successful delete_finalizer on a  *)
(* resource without the guard, leave the finalizer set unchanged; applying *)
(* either patch twice gives the same set as applying it once.              *)
(***************************************************************************)
C17_NoOpPatchStep ==
  \A r \in Resources :
    /\ (C13_Patched(r, "add_finalizer") /\ GuardPresent(store[r])) =>
         store'[r].finalizers = store[r].finalizers
    /\ (C13_Patched(r, "delete_finalizer") /\ ~GuardPresent(store[r])) =>
         store'[r].finalizers = store[r].finalizers

C17_TwiceIsOnce ==
  \A r \in Resources :
    LET f == store[r].finalizers
    IN /\ add_finalizer_patch(add_finalizer_patch(f)) = add_finalizer_patch(f)
       /\ delete_finalizer_patch(delete_finalizer_patch(f)) = delete_finalizer_patch(f)

C17_GuardPortIdempotent == [] C17_TwiceIsOnce /\ [][C17_NoOpPatchStep]_vars

(***************************************************************************)
(* C18 (no hidden retries): the port calls of a pass are at most           *)
(* add_finalizer then create_topic, or delete_topic then delete_finalizer, *)
(* each at most once; a call that failed is the last call of its pass; a   *)
(* pass starts from the resource as the store holds it and from nothing    *)
(* else.                                                                   *)
(***************************************************************************)
C18_Ops(r) == [i \in 1..Len(calls[r]) |-> calls[r][i].op]

C18_CallShape ==
  \A r \in Resources :
    C18_Ops(r) \in {<<>>, <<"add_finalizer">>, <<"add_finalizer", "create_topic">>,
                    <<"delete_topic">>, <<"delete_topic", "delete_finalizer">>}

C18_Failed(c) == c.ret = "Err" \/ c.backend \in BackendFailure

C18_StopsAtFailure ==
  \A r \in Resources :
    \A i \in 1..Len(calls[r]) :
      C18_Failed(calls[r][i]) => (i = Len(calls[r]) /\ pc[r] \in {"on_error", "idle"})

C18_FreshStartStep ==
  \A r \in Resources :
    (pc[r] = "idle" /\ C16_PassStep(r)) =>
      snapshot'[r] = [namespace |-> store[r].namespace,
                      deletion_timestamp |-> store[r].deletion_timestamp,
                      finalizers |-> store[r].finalizers]

C18_SinglePass ==
  /\ [](C18_CallShape /\ C18_StopsAtFailure)
  /\ [][C18_FreshStartStep]_vars

(***************************************************************************)
(* C19 (broker of the spec): every topic the controller has created lives  *)
(* on the broker named by spec.bootstrapServer of the resource that names  *)
(* the topic, so resources naming different brokers get their topics on    *)
(* different brokers.                                                      *)
(***************************************************************************)
C19_TopicOnSpecBroker ==
  \A t \in topics :
    \E r \in Resources : t = <<spec(r).bootstrap_server, spec(r).topic>>

(***************************************************************************)
(* C20 (foreign finalizer): a pass on a resource that is not               *)
(* deletion-requested and whose finalizer list is non-empty without the    *)
(* controller's marker is a NoOp (when the namespace is present) and makes *)
(* no port call; while the resource is in that state no step starts a pass *)
(* that attaches the guard or creates the topic.                           *)
(***************************************************************************)
C20_ForeignOnly(obj) ==
  /\ ~obj.deletion_timestamp
  /\ obj.finalizers # {}
  /\ OwnFinalizer \notin obj.finalizers

C20_ForeignState ==
  \A r \in Resources :
    (PassSeen(r) /\ C20_ForeignOnly(snapshot[r])) =>
      /\ calls[r] = <<>>
      /\ snapshot[r].namespace # None =>
           /\ action[r] = "NoOp"
           /\ pc[r] = "idle"
           /\ result[r] = Ok(requeue(10))

C20_ForeignStep ==
  \A r \in Resources :
    (pc[r] = "idle" /\ store[r].alive /\ C20_ForeignOnly(store[r])) =>
      /\ pc'[r] \in {"idle", "on_error"}
      /\ ~GuardPresent(store'[r])
      /\ TopicExists(r)' = TopicExists(r)

C20_ForeignFinalizerNoOp == [] C20_ForeignState /\ [][C20_ForeignStep]_vars

C20_Witness ==
  \E r \in Resources :
    /\ PassEnded(r)
    /\ C20_ForeignOnly(snapshot[r])
    /\ action[r] = "NoOp"
    /\ result[r] = Ok(requeue(10))
    /\ store[r].alive
    /\ C20_ForeignOnly(store[r])
    /\ ~TopicExists(r)

====
